---- MODULE Spec2Model ----
(***************************************************************************)
(* Timer engine of the Pomodoro application.                               *)
(*                                                                         *)
(*   store   the zustand timer store (src/store/timerStore.ts)             *)
(*   view    the store snapshot captured by the last render of TimerScreen *)
(*           (src/app/(tabs)/index.tsx): the values closed over by the     *)
(*           countdown interval and by the button handlers                 *)
(*   inflight  async store operations suspended at their await (a bag:     *)
(*           any of them may resume next)                                  *)
(*   notifs  notifications pending in the OS scheduler (bag of fire times, *)
(*           ms)                                                           *)
(*   taskStore  the zustand task store (tasks and the focused task)        *)
(*   sessions / saves  the Session Log and SessionRepository.saveSession   *)
(*           calls suspended at an await                                   *)
(*                                                                         *)
(* The clock `now` counts whole seconds; Date.now() is now * 1000.         *)
(***************************************************************************)
EXTENDS Integers, Sequences, FiniteSets, Bags, TLC

VARIABLES store, stored, view, isCompletingRef, inflight, notifs,
          sessions, saves, nextId, now, events, launches, taskStore,
          lastOp, doneSinceStart, phaseLen, ran, runLaunch

vars == << store, stored, view, isCompletingRef, inflight, notifs,
           sessions, saves, nextId, now, events, launches, taskStore,
           lastOp, doneSinceStart, phaseLen, ran, runLaunch >>

\* History variables, read by no operation:
\*   lastOp          the step taken last and how it ended
\*   doneSinceStart  completion branches executed since startTimer last set
\*                   the store Running (counted up to 2)
\*   phaseLen, ran   length the current phase had when it was first started,
\*                   and the seconds it has been running in earlier segments
\*   runLaunch       the launch of the app in which the current run was started

(* ------------------------------ bounds --------------------------------- *)

\* Number of smallest clock steps the clock may advance.
MaxTicks == 4

\* Store operations that may be suspended at an await at the same time.
MaxInFlight == 2

\* Notifications the scheduler holds at the same time.
MaxPending == 2

\* Records the Session Log holds, and saveSession calls in progress.
MaxSessions == 2

\* Button presses handled between two advances of the clock.
MaxEvents == 2

\* Times the process is killed and the app launched again.
MaxRelaunch == 1

\* Profiles in the profile list.
MaxProfiles == 3

\* Distances (seconds) by which the clock advances between two events.
TickSteps == {300, 600}

\* Contents of the add-profile form (name, work minutes, break minutes) as
\* typed; the two durations are texts, one character per element.
NewProfileInputs ==
  { [ name |-> "Custom", work |-> << "5" >>, brk |-> << "1", "0" >> ] }

\* Form contents that are empty, not numeric, zero or negative.
BadProfileInputs ==
  { [ name |-> "", work |-> << "5" >>, brk |-> << "5" >> ],
    [ name |-> "Custom", work |-> << >>, brk |-> << "5" >> ],
    [ name |-> "Custom", work |-> << "a" >>, brk |-> << "5" >> ],
    [ name |-> "Custom", work |-> << "0" >>, brk |-> << "5" >> ],
    [ name |-> "Custom", work |-> << "5" >>, brk |-> << "-", "3" >> ] }

\* An id that no profile has.
MissingIds == { "gone" }

\* Ids Math.random() produces for added profiles.
NewIds == { "c1" }

\* Ids Math.random() produces for added tasks.
NewTaskIds == { "t1" }

\* Id of a task added outside the modelled steps.
OtherTaskId == "t0"

\* Tasks in the task list.
MaxTasks == 1

(* --------------------------- helper values ----------------------------- *)

\* JavaScript null for the numeric fields startTime and pausedTimeLeft.
Null == -1

Max(a, b) == IF a >= b THEN a ELSE b

MinStep == CHOOSE s \in TickSteps : \A t \in TickSteps : s <= t

\* Date.now(), in milliseconds.
DateNow == now * 1000

DEFAULT_PROFILES ==
  << [id |-> "standard", name |-> "Standard", workDuration |-> 25, breakDuration |-> 5],
     [id |-> "short", name |-> "Short Focus", workDuration |-> 10, breakDuration |-> 5] >>

DefaultIds == { DEFAULT_PROFILES[i].id : i \in DOMAIN DEFAULT_PROFILES }

\* profiles.filter(p => p.id === id): profiles.find returns its first element.
RECURSIVE FindProfile(_, _)
FindProfile(profiles, id) ==
  IF profiles = << >> THEN << >>
  ELSE IF Head(profiles).id = id
       THEN << Head(profiles) >> \o FindProfile(Tail(profiles), id)
       ELSE FindProfile(Tail(profiles), id)

HasProfile(profiles, id) == FindProfile(profiles, id) # << >>

\* profiles.filter(p => p.id !== id)
RECURSIVE WithoutProfile(_, _)
WithoutProfile(profiles, id) ==
  IF profiles = << >> THEN << >>
  ELSE IF Head(profiles).id # id
       THEN << Head(profiles) >> \o WithoutProfile(Tail(profiles), id)
       ELSE WithoutProfile(Tail(profiles), id)

\* profiles.find(p => p.id === id) || profiles[0]   (profiles non-empty)
FindOrFirst(profiles, id) ==
  IF HasProfile(profiles, id) THEN Head(FindProfile(profiles, id)) ELSE Head(profiles)

\* Value of a decimal digit character.
DigitValue ==
  ("0" :> 0) @@ ("1" :> 1) @@ ("2" :> 2) @@ ("3" :> 3) @@ ("4" :> 4) @@
  ("5" :> 5) @@ ("6" :> 6) @@ ("7" :> 7) @@ ("8" :> 8) @@ ("9" :> 9)

\* The leading decimal digits of a text, as a number continuing acc; the
\* result is << >> when the text has no leading digit and acc is << >>.
RECURSIVE ParseDigits(_, _)
ParseDigits(text, acc) ==
  IF text = << >> \/ Head(text) \notin DOMAIN DigitValue
  THEN acc
  ELSE ParseDigits(Tail(text),
         << (IF acc = << >> THEN 0 ELSE Head(acc) * 10) + DigitValue[Head(text)] >>)

\* parseInt(text): leading blanks skipped, an optional sign, then the leading
\* digits; characters after them are ignored.  << >> stands for NaN.
RECURSIVE parseInt(_)
parseInt(text) ==
  IF text = << >> THEN << >>
  ELSE IF Head(text) = " " THEN parseInt(Tail(text))
  ELSE IF Head(text) = "-"
       THEN IF ParseDigits(Tail(text), << >>) = << >>
            THEN << >>
            ELSE << 0 - Head(ParseDigits(Tail(text), << >>)) >>
  ELSE IF Head(text) = "+" THEN ParseDigits(Tail(text), << >>)
  ELSE ParseDigits(text, << >>)

\* mode === 'focus' ? profile.workDuration * 60 : profile.breakDuration * 60
ProfileDuration(profile, mode) ==
  IF mode = "focus" THEN profile.workDuration * 60 ELSE profile.breakDuration * 60

ProfileIds(profiles) == { profiles[i].id : i \in DOMAIN profiles }

\* zustand set(partial): shallow merge of the partial state into the store.
Merge(s, partial) ==
  [f \in DOMAIN s |-> IF f \in DOMAIN partial THEN partial[f] ELSE s[f]]

Opposite(mode) == IF mode = "focus" THEN "break" ELSE "focus"

InitialState ==
  [ duration |-> 25 * 60,
    startTime |-> Null,
    isRunning |-> FALSE,
    timerMode |-> "focus",
    pausedTimeLeft |-> Null,
    profiles |-> DEFAULT_PROFILES,
    activeProfileId |-> "standard" ]

\* activeTaskId: null
NoTask == ""

\* Initial state of the task store: tasks: [], activeTaskId: null
InitialTasks == [ tasks |-> << >>, activeTaskId |-> NoTask ]

Init ==
  /\ store = InitialState
  /\ stored = InitialState
  /\ view = InitialState
  /\ isCompletingRef = FALSE
  /\ inflight = EmptyBag
  /\ notifs = EmptyBag
  /\ sessions = << >>
  /\ saves = EmptyBag
  /\ nextId = 1
  /\ now = MinStep
  /\ events = 0
  /\ launches = 0
  /\ taskStore = InitialTasks
  /\ lastOp = "init"
  /\ doneSinceStart = 0
  /\ phaseLen = 0
  /\ ran = 0
  /\ runLaunch = 0

(* ------------------- timer store: src/store/timerStore.ts -------------- *)

\* Persisted that writes the timer fields only.
PersistedTimerOnly(s) ==
  [f \in { "duration", "startTime", "isRunning", "timerMode", "pausedTimeLeft" } |-> s[f]]

\* The value persist writes with createJSONStorage: no partialize is
\* configured, so every data field of the state is serialized.
Persisted(s) == [f \in DOMAIN InitialState |-> s[f]]

\* Rehydration at start: the stored fields are merged over the initial state.
Rehydrated(p) == Merge(InitialState, p)

\* set(partial) under the persist middleware: the merged state is written
\* to AsyncStorage under 'timer-storage' on every set.
SetState(partial) ==
  /\ store' = Merge(store, partial)
  /\ stored' = Persisted(Merge(store, partial))

\* startTimerRead that starts every run over the full duration.
startTimerReadFull(s) ==
  [ op |-> "startTimer",
    startTime |-> DateNow,
    duration |-> s.duration,
    completing |-> FALSE ]

\* startTimer before its await: get(), effectiveDuration and Date.now().
startTimerRead(s) ==
  [ op |-> "startTimer",
    startTime |-> DateNow,
    duration |-> IF s.pausedTimeLeft # Null THEN s.pausedTimeLeft ELSE s.duration,
    completing |-> FALSE ]

\* trigger.seconds of the scheduled notification (durations are whole
\* seconds here, so Math.round leaves them as they are).
TriggerSeconds(effectiveDuration) == Max(1, effectiveDuration)

\* startTimer after its await.
startTimerSet(c) ==
  [ isRunning |-> TRUE,
    startTime |-> c.startTime,
    duration |-> c.duration,
    pausedTimeLeft |-> Null ]

\* stopTimer before its await: get() of startTime and duration.  `completing`
\* records whether the call was issued by the completion branch for the run
\* the store holds.
stopTimerRead(s, completing) ==
  [ op |-> "stopTimer",
    startTime |-> s.startTime,
    duration |-> s.duration,
    completing |-> completing ]

\* timeLeft of stopTimer, computed after the await with a fresh Date.now().
stopTimerTimeLeft(c) ==
  IF c.startTime # Null
  THEN Max(0, c.duration - ((DateNow - c.startTime) \div 1000))
  ELSE c.duration

\* stopTimerSet that forgets to clear startTime.
stopTimerSetKeepsStart(c) ==
  [ isRunning |-> FALSE,
    startTime |-> c.startTime,
    pausedTimeLeft |-> IF stopTimerTimeLeft(c) > 0 THEN stopTimerTimeLeft(c) ELSE Null ]

\* stopTimer after its await.
stopTimerSet(c) ==
  [ isRunning |-> FALSE,
    startTime |-> Null,
    pausedTimeLeft |-> IF stopTimerTimeLeft(c) > 0 THEN stopTimerTimeLeft(c) ELSE Null ]

resetTimerRead == [ op |-> "resetTimer", startTime |-> Null, duration |-> 0, completing |-> FALSE ]

\* resetTimerSet that leaves the mode as it is.
resetTimerSetKeepsMode(s) ==
  [ isRunning |-> FALSE,
    startTime |-> Null,
    duration |-> FindOrFirst(s.profiles, s.activeProfileId).workDuration * 60,
    pausedTimeLeft |-> Null ]

\* resetTimer after its await: get() and set().
resetTimerSet(s) ==
  [ isRunning |-> FALSE,
    startTime |-> Null,
    duration |-> FindOrFirst(s.profiles, s.activeProfileId).workDuration * 60,
    pausedTimeLeft |-> Null,
    timerMode |-> "focus" ]

\* setTimerModeSet that does not recompute the duration.
setTimerModeSetKeepsDuration(s, mode) ==
  [ timerMode |-> mode,
    isRunning |-> FALSE,
    startTime |-> Null,
    pausedTimeLeft |-> Null ]

\* setTimerModeSet that leaves the run fields to the pending stopTimer.
setTimerModeSetKeepsRun(s, mode) ==
  [ timerMode |-> mode,
    duration |-> ProfileDuration(FindOrFirst(s.profiles, s.activeProfileId), mode),
    pausedTimeLeft |-> Null ]

\* setTimerMode: the partial state it sets.
setTimerModeSet(s, mode) ==
  [ timerMode |-> mode,
    duration |-> ProfileDuration(FindOrFirst(s.profiles, s.activeProfileId), mode),
    isRunning |-> FALSE,
    startTime |-> Null,
    pausedTimeLeft |-> Null ]

addProfileSet(s, id, name, workDuration, breakDuration) ==
  [ profiles |-> Append(s.profiles,
       [ id |-> id, name |-> name,
         workDuration |-> workDuration, breakDuration |-> breakDuration ]) ]

\* deleteProfileActiveId that keeps the active id when its profile is deleted.
deleteProfileActiveIdKeeps(s, id) == s.activeProfileId

\* deleteProfileActiveId that falls back to the last remaining profile.
deleteProfileActiveIdLast(s, id) ==
  IF s.activeProfileId = id
  THEN IF WithoutProfile(s.profiles, id) # << >>
       THEN WithoutProfile(s.profiles, id)[Len(WithoutProfile(s.profiles, id))].id
       ELSE ""
  ELSE s.activeProfileId

\* newActiveId of deleteProfile; '' when no profile is left.
deleteProfileActiveId(s, id) ==
  IF s.activeProfileId = id
  THEN IF WithoutProfile(s.profiles, id) # << >>
       THEN Head(WithoutProfile(s.profiles, id)).id
       ELSE ""
  ELSE s.activeProfileId

\* deleteProfile reads activeProfile.workDuration of undefined when the list
\* becomes empty: the updater throws and the state is left as it was.
deleteProfileThrows(s, id) == WithoutProfile(s.profiles, id) = << >>

deleteProfileSet(s, id) ==
  [ profiles |-> WithoutProfile(s.profiles, id),
    activeProfileId |-> deleteProfileActiveId(s, id),
    duration |-> ProfileDuration(
        FindOrFirst(WithoutProfile(s.profiles, id), deleteProfileActiveId(s, id)),
        s.timerMode),
    isRunning |-> FALSE,
    startTime |-> Null ]

setActiveProfileSet(s, id) ==
  [ activeProfileId |-> id,
    duration |-> ProfileDuration(Head(FindProfile(s.profiles, id)), s.timerMode),
    isRunning |-> FALSE,
    startTime |-> Null ]

(* ---------------- task store (useTaskStore, 'task-storage') ------------- *)

TaskIds(t) == { t.tasks[i].id : i \in DOMAIN t.tasks }

\* addTask: the new task goes to the front, with pomodorosCompleted: 0.
addTaskSet(t, id) ==
  [ t EXCEPT !.tasks = << [ id |-> id, pomodorosCompleted |-> 0 ] >> \o t.tasks ]

\* setActiveTask
setActiveTaskSet(t, id) == [ t EXCEPT !.activeTaskId = id ]

\* tasks.filter(task => task.id !== id)
RECURSIVE WithoutTask(_, _)
WithoutTask(tasks, id) ==
  IF tasks = << >> THEN << >>
  ELSE IF Head(tasks).id # id
       THEN << Head(tasks) >> \o WithoutTask(Tail(tasks), id)
       ELSE WithoutTask(Tail(tasks), id)

\* The set() of deleteTask.
deleteTaskSet(t, id) ==
  [ tasks |-> WithoutTask(t.tasks, id),
    activeTaskId |-> IF t.activeTaskId = id THEN NoTask ELSE t.activeTaskId ]

\* incrementTaskPomodoros(id); no screen and no store operation calls it.
incrementTaskPomodorosSet(t, id) ==
  [ t EXCEPT !.tasks =
      [ i \in DOMAIN t.tasks |->
          IF t.tasks[i].id = id
          THEN [ t.tasks[i] EXCEPT !.pomodorosCompleted = @ + 1 ]
          ELSE t.tasks[i] ] ]

\* The task store with a focused task: as it is when a task is focused, and
\* otherwise after the user has added a task in the Tasks tab and pressed
\* Focus on it.
WithFocusedTask(t) ==
  IF t.activeTaskId # NoTask
  THEN t
  ELSE setActiveTaskSet(addTaskSet(t, OtherTaskId), OtherTaskId)

(* --------------- Notification Scheduler (expo-notifications) ----------- *)

\* A bag with one more copy of e, and with one copy of e less.
Put(bag, e) == bag (+) SetToBag({e})

Take(bag, e) == bag (-) SetToBag({e})

\* scheduleNotificationAsync: one more pending notification, due after
\* trigger.seconds.
Scheduled(ns, seconds) == Put(ns, DateNow + seconds * 1000)

\* cancelAllScheduledNotificationsAsync
Cancelled(ns) == EmptyBag

\* The notifications of ns that are still pending at time t (ms).
StillPending(ns, t) == [e \in { x \in DOMAIN ns : x > t } |-> ns[e]]

(* ------------------------- store operations ---------------------------- *)

\* startTimer() up to its await.  ok = FALSE: scheduleNotificationAsync
\* rejects, the await throws and the rest of startTimer never runs.
startTimer(ok) ==
  /\ IF ok
     THEN /\ BagCardinality(inflight) < MaxInFlight
          /\ BagCardinality(notifs) < MaxPending
          /\ notifs' = Scheduled(notifs, TriggerSeconds(startTimerRead(store).duration))
          /\ inflight' = Put(inflight, startTimerRead(store))
          /\ lastOp' = "startTimer:call"
     ELSE /\ UNCHANGED << notifs, inflight >>
          /\ lastOp' = "startTimer:rejected"
  /\ UNCHANGED << store, stored, view, isCompletingRef, sessions, saves, nextId,
                  now, doneSinceStart, phaseLen, ran, runLaunch, launches, taskStore >>

\* stopTimer() up to its await.  ok = FALSE: cancelAll rejects.
stopTimer(ok) ==
  /\ IF ok
     THEN /\ BagCardinality(inflight) < MaxInFlight
          /\ notifs' = Cancelled(notifs)
          /\ inflight' = Put(inflight, stopTimerRead(store, FALSE))
          /\ lastOp' = "stopTimer:call"
     ELSE /\ UNCHANGED << notifs, inflight >>
          /\ lastOp' = "stopTimer:rejected"
  /\ UNCHANGED << store, stored, view, isCompletingRef, sessions, saves, nextId,
                  now, doneSinceStart, phaseLen, ran, runLaunch, launches, taskStore >>

\* resetTimer() up to its await.
resetTimer(ok) ==
  /\ IF ok
     THEN /\ BagCardinality(inflight) < MaxInFlight
          /\ notifs' = Cancelled(notifs)
          /\ inflight' = Put(inflight, resetTimerRead)
          /\ lastOp' = "resetTimer:call"
     ELSE /\ UNCHANGED << notifs, inflight >>
          /\ lastOp' = "resetTimer:rejected"
  /\ UNCHANGED << store, stored, view, isCompletingRef, sessions, saves, nextId,
                  now, doneSinceStart, phaseLen, ran, runLaunch, launches >>

\* The rest of startTimer, stopTimer or resetTimer after its await resolved;
\* c is the suspended call.
Resume(c) ==
  /\ BagIn(c, inflight)
  /\ inflight' = Take(inflight, c)
  /\ CASE c.op = "startTimer" ->
            /\ SetState(startTimerSet(c))
            /\ doneSinceStart' = 0
            /\ runLaunch' = launches
            /\ IF ~store.isRunning /\ store.pausedTimeLeft = Null
               THEN phaseLen' = c.duration /\ ran' = 0
               ELSE UNCHANGED << phaseLen, ran >>
            /\ lastOp' = "startTimer:done"
       [] c.op = "stopTimer" ->
            /\ SetState(stopTimerSet(c))
            /\ ran' = IF store.isRunning
                      THEN ran + ((DateNow - store.startTime) \div 1000)
                      ELSE ran
            /\ UNCHANGED << doneSinceStart, phaseLen, runLaunch >>
            /\ lastOp' = IF c.completing
                         THEN "stopTimer:done:completion" ELSE "stopTimer:done"
       [] c.op = "resetTimer" ->
            /\ SetState(resetTimerSet(store))
            /\ phaseLen' = 0 /\ ran' = 0
            /\ UNCHANGED << doneSinceStart, runLaunch >>
            /\ lastOp' = "resetTimer:done"
  /\ UNCHANGED << view, isCompletingRef, notifs, sessions, saves, nextId, now,
                  events, launches, taskStore >>

setTimerMode(mode) ==
  /\ SetState(setTimerModeSet(store, mode))
  /\ phaseLen' = 0 /\ ran' = 0
  /\ lastOp' = "setTimerMode"
  /\ UNCHANGED << view, isCompletingRef, inflight, notifs, sessions, saves, nextId,
                  now, doneSinceStart, runLaunch, launches, taskStore >>

addProfile(id, name, workDuration, breakDuration) ==
  /\ Len(store.profiles) < MaxProfiles
  /\ SetState(addProfileSet(store, id, name, workDuration, breakDuration))
  /\ lastOp' = "addProfile"
  /\ UNCHANGED << view, isCompletingRef, inflight, notifs, sessions, saves, nextId,
                  now, doneSinceStart, phaseLen, ran, runLaunch, launches, taskStore >>

deleteProfile(id) ==
  /\ IF deleteProfileThrows(store, id)
     THEN /\ UNCHANGED << store, stored, phaseLen, ran >>
          /\ lastOp' = "deleteProfile:threw"
     ELSE /\ SetState(deleteProfileSet(store, id))
          /\ IF store.isRunning
             THEN phaseLen' = 0 /\ ran' = 0
             ELSE UNCHANGED << phaseLen, ran >>
          /\ lastOp' = IF HasProfile(store.profiles, id)
                       THEN "deleteProfile" ELSE "deleteProfile:missing"
  /\ UNCHANGED << view, isCompletingRef, inflight, notifs, sessions, saves, nextId,
                  now, doneSinceStart, runLaunch, launches, taskStore >>

setActiveProfile(id) ==
  /\ IF HasProfile(store.profiles, id)
     THEN /\ SetState(setActiveProfileSet(store, id))
          /\ IF store.isRunning
             THEN phaseLen' = 0 /\ ran' = 0
             ELSE UNCHANGED << phaseLen, ran >>
     ELSE UNCHANGED << store, stored, phaseLen, ran >>
  /\ lastOp' = IF HasProfile(store.profiles, id)
               THEN "setActiveProfile" ELSE "setActiveProfile:missing"
  /\ UNCHANGED << view, isCompletingRef, inflight, notifs, sessions, saves, nextId,
                  now, doneSinceStart, runLaunch, launches, taskStore >>


(* --------- Session Log: SessionRepository (src/unnamed/part_007) ------- *)

\* getAllSessions of the saveSession call c: getItem resolved (ok) or threw,
\* in which case the catch returns [].
SaveRead(c, ok) ==
  /\ BagIn(c, saves)
  /\ c.phase = "read"
  /\ saves' = Put(Take(saves, c),
        [ session |-> c.session,
          phase |-> "write",
          existing |-> IF ok THEN sessions ELSE << >> ])
  /\ lastOp' = "saveSession:read"
  /\ UNCHANGED << store, stored, view, isCompletingRef, inflight, notifs, sessions,
                  nextId, now, doneSinceStart, phaseLen, ran, runLaunch, launches, events, taskStore >>

\* setItem of [...existing, session]; a failing setItem is caught and logged.
SaveWrite(c, ok) ==
  /\ BagIn(c, saves)
  /\ c.phase = "write"
  /\ saves' = Take(saves, c)
  /\ sessions' = IF ok THEN Append(c.existing, c.session) ELSE sessions
  /\ lastOp' = "saveSession:write"
  /\ UNCHANGED << store, stored, view, isCompletingRef, inflight, notifs,
                  nextId, now, doneSinceStart, phaseLen, ran, runLaunch, launches, events, taskStore >>

(* ------------- TimerScreen: src/app/(tabs)/index.tsx ------------------- *)

\* The component has rendered the current store state.
Fresh == view = store

\* remaining that counts down from the duration without reading the clock.
remainingNoClock(v) == Max(0, v.duration)

\* remaining of the countdown interval, from the values of the closure.
remaining(v) == Max(0, v.duration - ((DateNow - v.startTime) \div 1000))

\* The session the completion branch hands to saveSession.
CompletedSession(v) ==
  [ id |-> nextId,
    startTime |-> v.startTime,
    duration |-> v.duration,
    completedAt |-> DateNow,
    type |-> "focus" ]

\* ShouldComplete without the latch.
ShouldCompleteNoLatch == remaining(view) <= 0

\* if (remaining <= 0 && !isCompletingRef.current)
ShouldComplete == remaining(view) <= 0 /\ ~isCompletingRef

\* ShouldSave that logs every phase.
ShouldSaveAnyMode(v) == v.startTime # Null

\* if (startTime && timerMode === 'focus')
ShouldSave(v) == v.startTime # Null /\ v.timerMode = "focus"

\* Completion branch of the interval callback: latch, un-awaited stopTimer()
\* (ok: whether its cancelAll succeeds), saveSession for a focus phase,
\* setTimerMode of the other mode.
Completion(ok) ==
  /\ ok => BagCardinality(inflight) < MaxInFlight
  /\ ShouldSave(view) => nextId <= MaxSessions
  /\ isCompletingRef' = TRUE
  /\ inflight' = IF ok THEN Put(inflight, stopTimerRead(store, Fresh)) ELSE inflight
  /\ notifs' = IF ok THEN Cancelled(notifs) ELSE notifs
  /\ IF ShouldSave(view)
     THEN /\ saves' = Put(saves,
                [ session |-> CompletedSession(view), phase |-> "read", existing |-> << >> ])
          /\ nextId' = nextId + 1
     ELSE UNCHANGED << saves, nextId >>
  /\ SetState(setTimerModeSet(store, Opposite(view.timerMode)))
  /\ doneSinceStart' = IF doneSinceStart < 2 THEN doneSinceStart + 1 ELSE 2
  /\ phaseLen' = 0 /\ ran' = 0
  /\ lastOp' = IF view.timerMode = "focus" THEN "completion:focus" ELSE "completion:break"
  /\ UNCHANGED << view, sessions, now, events, launches, runLaunch, taskStore >>

\* One firing of the 100 ms countdown interval created by the last render.
Interval(ok) ==
  /\ view.isRunning
  /\ view.startTime # Null
  /\ IF ShouldComplete
     THEN Completion(ok)
     ELSE /\ lastOp' = "interval"
          /\ UNCHANGED << store, stored, view, isCompletingRef, inflight, notifs,
                          sessions, saves, nextId, now, doneSinceStart, phaseLen, ran, runLaunch, launches, events, taskStore >>

\* LatchAfterRender that never clears the latch.
LatchAfterRenderKeeps(old, new, latch) == latch

\* The effect on [isRunning, startTime]: if (isRunning) isCompletingRef = false
LatchAfterRender(old, new, latch) ==
  IF new.isRunning /\ (new.isRunning # old.isRunning \/ new.startTime # old.startTime)
  THEN FALSE
  ELSE latch

\* React re-renders TimerScreen with the new store state and runs its effects:
\* the old interval is cleared and a new closure is created.
Render ==
  /\ ~Fresh
  /\ view' = store
  /\ isCompletingRef' = LatchAfterRender(view, store, isCompletingRef)
  /\ lastOp' = "render"
  /\ UNCHANGED << store, stored, inflight, notifs, sessions, saves, nextId, now,
                  doneSinceStart, phaseLen, ran, runLaunch, launches, events, taskStore >>

\* A button press handled by the screen that shows the store state.
UserEvent ==
  /\ Fresh
  /\ events < MaxEvents
  /\ events' = events + 1

\* "Start Focus" / "Start Break" button, shown when idle.
PressStart(ok) ==
  /\ UserEvent
  /\ ~view.isRunning /\ view.pausedTimeLeft = Null
  /\ startTimer(ok)

ControlsShown == view.isRunning \/ view.pausedTimeLeft # Null

\* Pause / Resume button.
toggleTimer(ok) ==
  /\ UserEvent
  /\ ControlsShown
  /\ IF view.isRunning THEN stopTimer(ok) ELSE startTimer(ok)

\* Stop button.
PressStop(ok) ==
  /\ UserEvent
  /\ ControlsShown
  /\ resetTimer(ok)
  /\ UNCHANGED taskStore

\* deleteTask of the focused task (task store) resets the timer in any state
\* and removes the task.
deleteTask(ok) ==
  /\ UserEvent
  /\ resetTimer(ok)
  /\ taskStore' = deleteTaskSet(WithFocusedTask(taskStore),
                                WithFocusedTask(taskStore).activeTaskId)

\* tasks.tsx, handleAddTask with a non-blank title.
handleAddTask(id) ==
  /\ UserEvent
  /\ id \notin TaskIds(taskStore)
  /\ Len(taskStore.tasks) < MaxTasks
  /\ taskStore' = addTaskSet(taskStore, id)
  /\ lastOp' = "addTask"
  /\ UNCHANGED << store, stored, view, isCompletingRef, inflight, notifs,
                  sessions, saves, nextId, now, doneSinceStart, phaseLen,
                  ran, runLaunch, launches >>

\* tasks.tsx, handleFocus: the Focus button of a listed task.
handleFocus(id) ==
  /\ UserEvent
  /\ id \in TaskIds(taskStore)
  /\ taskStore' = setActiveTaskSet(taskStore, id)
  /\ lastOp' = "setActiveTask"
  /\ UNCHANGED << store, stored, view, isCompletingRef, inflight, notifs,
                  sessions, saves, nextId, now, doneSinceStart, phaseLen,
                  ran, runLaunch, launches >>

skipPhase ==
  /\ UserEvent
  /\ ControlsShown
  /\ setTimerMode(Opposite(view.timerMode))

handleProfileSelect(id) ==
  /\ UserEvent
  /\ id \in ProfileIds(view.profiles)
  /\ ~view.isRunning
  /\ setActiveProfile(id)

\* settings.tsx: if (!newProfileName || !newWorkDuration || !newBreakDuration)
\* and if (isNaN(work) || isNaN(breakTime))
FormRejected(form) ==
  \/ form.name = "" \/ form.work = << >> \/ form.brk = << >>
  \/ parseInt(form.work) = << >> \/ parseInt(form.brk) = << >>

\* settings.tsx: the form is validated, its durations are parsed and reach
\* addProfile; id is the id Math.random() gives the new profile.
handleAddProfile(id, form) ==
  /\ UserEvent
  /\ id \notin ProfileIds(store.profiles)
  /\ IF FormRejected(form)
     THEN /\ lastOp' = "handleAddProfile:rejected"
          /\ UNCHANGED << store, stored, view, isCompletingRef, inflight, notifs,
                          sessions, saves, nextId, now, doneSinceStart, phaseLen,
                          ran, runLaunch, launches, taskStore >>
     ELSE addProfile(id, form.name, Head(parseInt(form.work)), Head(parseInt(form.brk)))

\* settings.tsx: the trash button is rendered for non-default profiles only.
handleDeleteProfile(id) ==
  /\ UserEvent
  /\ id \in ProfileIds(view.profiles) \ DefaultIds
  /\ deleteProfile(id)

(* ------------------------------ environment ---------------------------- *)

\* Nothing is suspended at an await and the screen shows the store state.
Quiescent == Fresh /\ inflight = EmptyBag /\ saves = EmptyBag

\* Time passes; notifications that became due are delivered.  The clock
\* advances by minutes: native calls (milliseconds) have resolved and React
\* has rendered before it does.
Tick(d) ==
  /\ Quiescent
  /\ now + d <= MaxTicks * MinStep
  /\ now' = now + d
  /\ events' = 0
  /\ notifs' = StillPending(notifs, (now + d) * 1000)
  /\ lastOp' = "tick"
  /\ UNCHANGED << store, stored, view, isCompletingRef, inflight, sessions, saves,
                  nextId, doneSinceStart, phaseLen, ran, runLaunch, launches, taskStore >>

\* The process is killed and the app launched again: the store is rehydrated
\* from 'timer-storage', the component mounts with a new ref, and every
\* suspended call is gone.  Scheduled notifications and the Session Log stay.
Relaunch ==
  /\ launches < MaxRelaunch
  /\ launches' = launches + 1
  /\ store' = Rehydrated(stored)
  /\ view' = Rehydrated(stored)
  /\ isCompletingRef' = FALSE
  /\ inflight' = EmptyBag
  /\ saves' = EmptyBag
  /\ lastOp' = "relaunch"
  /\ UNCHANGED << stored, notifs, sessions, nextId, now, events,
                  doneSinceStart, phaseLen, ran, runLaunch, taskStore >>

Next ==
  \/ \E ok \in BOOLEAN : PressStart(ok)
  \/ \E ok \in BOOLEAN : toggleTimer(ok)
  \/ \E ok \in BOOLEAN : PressStop(ok)
  \/ \E ok \in BOOLEAN : deleteTask(ok)
  \/ \E c \in BagToSet(inflight) : Resume(c)
  \/ skipPhase
  \/ \E id \in DefaultIds \cup NewIds : handleProfileSelect(id)
  \/ \E id \in NewIds, form \in NewProfileInputs : handleAddProfile(id, form)
  \/ \E id \in NewIds : handleDeleteProfile(id)
  \/ \E ok \in BOOLEAN : Interval(ok)
  \/ Render
  \/ \E c \in BagToSet(saves), ok \in BOOLEAN : SaveRead(c, ok)
  \/ \E c \in BagToSet(saves), ok \in BOOLEAN : SaveWrite(c, ok)
  \/ \E d \in TickSteps : Tick(d)

Spec == Init /\ [][Next]_vars

NextRelaunch == Next \/ Relaunch

SpecRelaunch == Init /\ [][NextRelaunch]_vars

\* Steps that are button presses or firings of the countdown interval.
Completions == { "completion:focus", "completion:break" }

IsEvent == events' = events + 1 \/ lastOp' \in Completions \cup { "interval" }

\* Every store call is awaited: a button press or interval firing finds no
\* earlier call suspended and the screen rendered.
NextAwaited == Next /\ (IsEvent => Quiescent)

SpecAwaited == Init /\ [][NextAwaited]_vars

\* A call of a store operation by any caller of useTimerStore, with an
\* argument the screens do not restrict.
EngineCall ==
  /\ events < MaxEvents
  /\ events' = events + 1

AnyIds == DefaultIds \cup NewIds \cup MissingIds

callDeleteProfile(id) == EngineCall /\ deleteProfile(id)

callSetActiveProfile(id) == EngineCall /\ setActiveProfile(id)

callStopTimer(ok) == EngineCall /\ stopTimer(ok)

\* The screens, the store operations called with any profile id, and the
\* add-profile form filled with any contents; every store call is awaited.
NextEngine ==
  /\ \/ Next
     \/ \E id \in AnyIds : callDeleteProfile(id)
     \/ \E id \in AnyIds : callSetActiveProfile(id)
     \/ \E ok \in BOOLEAN : callStopTimer(ok)
     \/ \E id \in NewIds, form \in BadProfileInputs : handleAddProfile(id, form)
  /\ (IsEvent => Quiescent)

SpecEngine == Init /\ [][NextEngine]_vars

\* The screens with the Tasks tab in use; every store call is awaited.
NextTasks ==
  /\ \/ Next
     \/ \E id \in NewTaskIds : handleAddTask(id)
     \/ \E id \in NewTaskIds : handleFocus(id)
  /\ (IsEvent => Quiescent)

SpecTasks == Init /\ [][NextTasks]_vars

\* Steps that invoke a pause, reset, skip or profile operation.
Interference ==
  lastOp' \in { "stopTimer:call", "stopTimer:rejected",
                "resetTimer:call", "resetTimer:rejected",
                "setTimerMode", "setActiveProfile", "setActiveProfile:missing",
                "deleteProfile", "deleteProfile:missing", "deleteProfile:threw" }

\* Awaited store calls, and no pause, reset, skip or profile operation is
\* invoked while the timer is running.
NextLive == NextAwaited /\ (store.isRunning => ~Interference)

\* React renders, suspended store calls and saveSession calls go on.
Settle ==
  \/ Render
  \/ \E c \in BagToSet(inflight) : Resume(c)
  \/ \E c \in BagToSet(saves), ok \in BOOLEAN : SaveRead(c, ok)
  \/ \E c \in BagToSet(saves), ok \in BOOLEAN : SaveWrite(c, ok)

\* Time advances, the interval keeps firing, and what is pending settles.
Fairness ==
  /\ WF_vars(NextLive /\ \E d \in TickSteps : Tick(d))
  /\ WF_vars(NextLive /\ \E ok \in BOOLEAN : Interval(ok))
  /\ WF_vars(NextLive /\ Settle)

SpecLive == Init /\ [][NextLive]_vars /\ Fairness


(* ------------------------------ properties ----------------------------- *)

Running(s) == s.isRunning /\ s.startTime # Null /\ s.pausedTimeLeft = Null

Paused(s) == ~s.isRunning /\ s.startTime = Null /\ s.pausedTimeLeft # Null

Idle(s) == ~s.isRunning /\ s.startTime = Null /\ s.pausedTimeLeft = Null

\* The profile activeProfileId refers to, as a sequence (empty when dangling).
ActiveProfile(s) == FindProfile(s.profiles, s.activeProfileId)

\* duration is the one the mode and the active profile imply.
DurationOfProfile(s) ==
  /\ ActiveProfile(s) # << >>
  /\ s.duration = IF s.timerMode = "focus"
                  THEN 60 * Head(ActiveProfile(s)).workDuration
                  ELSE 60 * Head(ActiveProfile(s)).breakDuration

\* Seconds the run of s has been running.
Elapsed(s) == (DateNow - s.startTime) \div 1000

Rejections == { "startTimer:rejected", "stopTimer:rejected", "resetTimer:rejected" }

\* C1: completion runs once per phase run.  Between two state updates of
\* startTimer the completion branch runs at most once, whatever number of
\* interval firings arrive; the latch is set by the completion and is cleared
\* only by a render of a store that startTimer has put in Running.
C1_CompletionOnce ==
  /\ [](doneSinceStart <= 1)
  /\ [](lastOp \in Completions => isCompletingRef)
  /\ [][(isCompletingRef /\ ~isCompletingRef')
          => (store'.isRunning /\ doneSinceStart' = 0)]_vars

\* A firing of the stale interval after the completion, ignored by the latch.
C1_Witness ==
  /\ lastOp = "interval"
  /\ isCompletingRef
  /\ doneSinceStart = 1
  /\ view.isRunning /\ ~store.isRunning

\* C2: duration always equals 60 x the active profile's minutes for the mode.
C2_DurationFollowsProfile == DurationOfProfile(store)

\* C3: in every state exactly one of Running, Paused, Idle holds.
C3_OneOfThreeStates ==
  /\ Running(store) \/ Paused(store) \/ Idle(store)
  /\ ~(Running(store) /\ Paused(store))
  /\ ~(Running(store) /\ Idle(store))
  /\ ~(Paused(store) /\ Idle(store))

\* A paused timer while two store calls are suspended at their awaits.
C3_Witness == Paused(store) /\ BagCardinality(inflight) = 2

\* C4: at most one notification is pending.
C4_AtMostOnePending == BagCardinality(notifs) <= 1

\* C5: a completed resetTimer leaves focus mode, not running, no startTime,
\* no pausedTimeLeft and the active profile's work duration.
C5_ResetNormalizes ==
  lastOp = "resetTimer:done" =>
    /\ store.timerMode = "focus"
    /\ Idle(store)
    /\ ActiveProfile(store) # << >>
    /\ store.duration = 60 * Head(ActiveProfile(store)).workDuration

\* resetTimer has ended a running break of the "short" profile that the
\* screen still shows.
C5_Witness ==
  /\ lastOp = "resetTimer:done"
  /\ view.timerMode = "break" /\ view.isRunning
  /\ store.activeProfileId = "short"

\* C6: pause/resume round trip, store calls awaited.  A paused phase keeps
\* exactly its length minus the time it ran, a resumed run lasts exactly that
\* long and has no pausedTimeLeft, and the completion fires when, and only
\* when, the running time of all segments has reached the phase length.
C6_PauseResumeRoundTrip ==
  /\ [](Paused(store) => store.pausedTimeLeft = phaseLen - ran)
  /\ [](store.isRunning => /\ store.duration = phaseLen - ran
                           /\ store.pausedTimeLeft = Null)
  /\ [][lastOp' \in Completions => ran + Elapsed(store) >= phaseLen]_vars
  /\ [][lastOp' = "interval" => ran + Elapsed(store) < phaseLen]_vars

\* A 1500 s phase resumed after 600 s of running: the run lasts 900 s.
C6_Witness ==
  /\ lastOp = "startTimer:done"
  /\ Running(store)
  /\ phaseLen = 1500
  /\ ran = 600
  /\ store.duration = 900

\* C7: the completion of a running phase leaves the engine Idle in the other
\* mode with the active profile's duration for that mode, and the stopTimer
\* the completion issued leaves it Idle, mode and duration untouched.
C7_CompletionEndsIdle ==
  /\ [][(lastOp' \in Completions /\ Fresh /\ store.isRunning) =>
          /\ Idle(store')
          /\ store'.timerMode = Opposite(store.timerMode)
          /\ DurationOfProfile(store')]_vars
  /\ [][lastOp' = "stopTimer:done:completion" =>
          /\ Idle(store')
          /\ store'.timerMode = store.timerMode
          /\ store'.duration = store.duration]_vars

\* The stopTimer of a focus completion has finished: Idle, in break mode.
C7_Witness ==
  /\ lastOp = "stopTimer:done:completion"
  /\ Idle(store)
  /\ store.timerMode = "break"
  /\ doneSinceStart = 1

\* The sessions handed to saveSession calls that are still in progress.
SavingSessions == { c.session : c \in BagToSet(saves) }

\* C8: a break completion starts no saveSession, a focus completion exactly
\* one, no other step starts one, and every record is of type focus.
C8_OnlyFocusLogged ==
  /\ [][/\ lastOp' = "completion:break" => (nextId' = nextId /\ saves' = saves)
        /\ lastOp' = "completion:focus" =>
             /\ nextId' = nextId + 1
             /\ BagCardinality(saves') = BagCardinality(saves) + 1
        /\ lastOp' \notin Completions =>
             /\ nextId' = nextId
             /\ BagCardinality(saves') <= BagCardinality(saves)
             /\ SavingSessions' \subseteq SavingSessions]_vars
  /\ [](\A i \in DOMAIN sessions : sessions[i].type = "focus")
  /\ [](\A r \in SavingSessions : r.type = "focus")
  /\ [](Len(sessions) < nextId)

\* A break phase has completed after the focus phase before it was logged.
C8_Witness ==
  /\ lastOp = "completion:break"
  /\ Len(sessions) = 1
  /\ saves = EmptyBag

C10_NoRejection == lastOp \notin Rejections

\* C11: setTimerMode called while the timer is running is rejected: mode,
\* duration, isRunning and startTime stay as they are and the run continues.
C11_SetTimerModeRejectedWhileRunning ==
  [][(lastOp' = "setTimerMode" /\ store.isRunning) =>
        /\ store'.timerMode = store.timerMode
        /\ store'.duration = store.duration
        /\ store'.isRunning = store.isRunning
        /\ store'.startTime = store.startTime]_vars

\* C12: every store operation returns normally, whatever profile id it is
\* given, the id of the only profile left included.  Stated for deleteProfile;
\* the operations that await a notification call are the subject of C10.
C12_DeleteProfileTotal == lastOp # "deleteProfile:threw"

\* C13: setActiveProfile and deleteProfile of an id that no profile has
\* change no field of the timer state, in every state.
C13_MissingIdIsNoOp ==
  [][lastOp' \in { "setActiveProfile:missing", "deleteProfile:missing" } =>
        /\ store' = store
        /\ stored' = stored]_vars

\* C14: both built-in profiles are in the profile list, with their original
\* durations, in every state.
C14_BuiltInProfilesStay ==
  \A i \in DOMAIN DEFAULT_PROFILES :
    FindProfile(store.profiles, DEFAULT_PROFILES[i].id) = << DEFAULT_PROFILES[i] >>

\* C15: every profile has a non-empty name and work and break durations of
\* at least one minute; a rejected form changes nothing.
C15_ProfilesValid ==
  /\ [](\A i \in DOMAIN store.profiles :
          /\ store.profiles[i].name # ""
          /\ store.profiles[i].workDuration >= 1
          /\ store.profiles[i].breakDuration >= 1)
  /\ [][lastOp' = "handleAddProfile:rejected" => store' = store]_vars

\* Index of the first profile of s that is not the active one.
FirstOther(s) ==
  CHOOSE i \in DOMAIN s.profiles :
    /\ s.profiles[i].id # s.activeProfileId
    /\ \A j \in 1..(i - 1) : s.profiles[j].id = s.activeProfileId

\* C16: deleting the active profile makes the first remaining profile, in
\* list order, the active one, and duration that profile's duration for the
\* current mode.
C16_DeleteActiveFallsBackToFirst ==
  [][(lastOp' = "deleteProfile" /\ ~HasProfile(store'.profiles, store.activeProfileId)) =>
        /\ store'.activeProfileId = store.profiles[FirstOther(store)].id
        /\ store'.timerMode = store.timerMode
        /\ store'.duration =
             ProfileDuration(store.profiles[FirstOther(store)], store.timerMode)]_vars

\* The active custom profile, third in the list, has been deleted: the
\* built-in "standard", first in the list, is active.
C16_Witness ==
  /\ lastOp = "deleteProfile"
  /\ view.activeProfileId = "c1"
  /\ Len(view.profiles) = 3
  /\ store.activeProfileId = "standard"
  /\ Len(store.profiles) = 2

\* C17: stopTimer called on a running timer leaves it Paused with
\* pausedTimeLeft = max(0, duration - elapsed), 0 included, and no
\* notification pending.
C17_StopAlwaysPauses ==
  /\ [][(lastOp' = "stopTimer:done" /\ Running(store)) =>
          /\ Paused(store')
          /\ store'.pausedTimeLeft = Max(0, store.duration - Elapsed(store))]_vars
  /\ [](lastOp = "stopTimer:done" => notifs = EmptyBag)

\* C18: while running, the remaining time the interval computes is
\* max(0, duration - (now - startTime)); whether the interval completes the
\* phase depends on that value alone, and a firing that does not complete
\* changes nothing.
C18_DriftFree ==
  /\ [](view.isRunning /\ view.startTime # Null =>
          remaining(view) =
            IF now - (view.startTime \div 1000) >= view.duration
            THEN 0
            ELSE view.duration - (now - (view.startTime \div 1000)))
  /\ [][lastOp' \in Completions => now - (view.startTime \div 1000) >= view.duration]_vars
  /\ [][(lastOp' = "interval" /\ ~isCompletingRef) =>
          now - (view.startTime \div 1000) < view.duration]_vars
  /\ [][lastOp' = "interval" =>
          UNCHANGED << store, stored, view, isCompletingRef, inflight, notifs,
                       sessions, saves, nextId, now >>]_vars

\* The interval has fired part-way through a run while another store call
\* is suspended.
C18_Witness ==
  /\ lastOp = "interval"
  /\ Running(view)
  /\ now * 1000 > view.startTime
  /\ remaining(view) > 0
  /\ remaining(view) < view.duration
  /\ inflight # EmptyBag

Horizon == MaxTicks * MinStep

\* A run with no store call suspended that ends before the clock stops, and
\* whose session the Session Log can still take.
RunEndsInTime(mode) ==
  /\ Running(store)
  /\ store.timerMode = mode
  /\ inflight = EmptyBag
  /\ (store.startTime \div 1000) + store.duration <= Horizon
  /\ nextId <= MaxSessions

\* The completion branch has just left the engine Idle in the given mode.
CompletedInto(mode) ==
  /\ lastOp \in Completions
  /\ Idle(store)
  /\ store.timerMode = mode

\* C20: a running timer that is not paused, reset, skipped or given another
\* profile eventually completes, leaving the engine Idle in the other mode.
C20_EventuallyCompletes ==
  /\ RunEndsInTime("focus") ~> CompletedInto("break")
  /\ RunEndsInTime("break") ~> CompletedInto("focus")

\* The second run since launch, a break, has completed into focus mode.
C20_Witness ==
  /\ CompletedInto("focus")
  /\ Len(sessions) + BagCardinality(saves) >= 1
  /\ now = Horizon

\* pomodorosCompleted of the task with the given id (0 when it is not listed).
PomodorosOf(t, id) ==
  IF id \in TaskIds(t)
  THEN (CHOOSE task \in { t.tasks[i] : i \in DOMAIN t.tasks } : task.id = id).pomodorosCompleted
  ELSE 0

\* C21: the completion of a focus phase adds exactly one to pomodorosCompleted
\* of the focused task; break completions and skips leave the tasks alone.
C21_TaskPomodorosCounted ==
  /\ [][(lastOp' = "completion:focus" /\ taskStore.activeTaskId # NoTask) =>
          PomodorosOf(taskStore', taskStore.activeTaskId)
            = PomodorosOf(taskStore, taskStore.activeTaskId) + 1]_vars
  /\ [][lastOp' \in { "completion:break", "setTimerMode" } =>
          taskStore' = taskStore]_vars

\* C22: setActiveProfile of an existing profile on a timer that is not
\* running selects it, recomputes duration for the mode and leaves the timer
\* Idle: not running, no startTime, no pausedTimeLeft.
C22_SetActiveProfileClearsRun ==
  [][(lastOp' = "setActiveProfile" /\ ~store.isRunning) =>
        /\ HasProfile(store.profiles, store'.activeProfileId)
        /\ DurationOfProfile(store')
        /\ Idle(store')]_vars

\* C23: deleteProfile called while the timer is running leaves isRunning,
\* startTime and duration as they are.
C23_DeleteProfileKeepsRun ==
  [][(lastOp' \in { "deleteProfile", "deleteProfile:missing" } /\ Running(store)) =>
        /\ store'.isRunning = store.isRunning
        /\ store'.startTime = store.startTime
        /\ store'.duration = store.duration]_vars

\* C24: when no store call is suspended and the timer is not running, no
\* notification is pending.
C24_PendingOnlyWhileRunning ==
  (inflight = EmptyBag /\ ~store.isRunning) => notifs = EmptyBag

\* The suspended store call that the step resumes.
Resumed == CHOOSE c \in BagToSet(inflight) : inflight' = Take(inflight, c)

\* C25: the stopTimer call of a completion that resumes after a later
\* startTimer has set the timer running leaves it running, with the
\* notification of that run pending.
C25_LateStopKeepsLaterRun ==
  [][(lastOp' = "stopTimer:done:completion" /\ Running(store)) =>
        /\ store'.isRunning
        /\ notifs' = notifs]_vars

\* C26: the session a focus completion hands to saveSession has the full
\* phase length, 60 x workDuration of the active profile, as its duration.
C26_SessionHasFullLength ==
  [][lastOp' = "completion:focus" =>
        \A r \in SavingSessions' \ SavingSessions :
           /\ ActiveProfile(store) # << >>
           /\ r.duration = 60 * Head(ActiveProfile(store)).workDuration]_vars

\* C27: stopTimer called on a timer that is not running changes nothing:
\* an Idle timer stays Idle and a Paused timer keeps its pausedTimeLeft.
C27_StopWhenNotRunningIsNoOp ==
  [][(lastOp' \in { "stopTimer:done", "stopTimer:done:completion" }
        /\ Resumed.startTime = Null /\ ~store.isRunning) =>
        store' = store]_vars

\* C28: a pausedTimeLeft that is set never exceeds duration.
C28_PausedWithinDuration ==
  store.pausedTimeLeft # Null => store.pausedTimeLeft <= store.duration

\* C29: the Session Log only grows: every record it held before a step is
\* still in it after the step, and no record is in it twice.
C29_SessionLogAppendOnly ==
  /\ [][\A i \in DOMAIN sessions : \E j \in DOMAIN sessions' : sessions'[j] = sessions[i]]_vars
  /\ [](\A i, j \in DOMAIN sessions : sessions[i] = sessions[j] => i = j)

\* C30: the profile list is never empty and activeProfileId is the id of a
\* profile in it.
C30_ActiveProfileValid ==
  /\ store.profiles # << >>
  /\ HasProfile(store.profiles, store.activeProfileId)

\* The active built-in profile has been deleted, a custom profile is the only
\* one left and active, and deleting it has failed.
C30_Witness ==
  /\ lastOp = "deleteProfile:threw"
  /\ Len(store.profiles) = 1
  /\ store.activeProfileId \in NewIds

====
